---- MODULE Spec2Model ----
(***************************************************************************)
(* Model of package features (src/features/features.go): a process-wide   *)
(* registry of boolean feature flags guarded by one sync.RWMutex.          *)
(*                                                                         *)
(* Program state: features, initial, nameToFeature, and the lock fMu       *)
(* (wHolder, readers).  Every goroutine calling into the package has a     *)
(* position pc and the locals of the call it is in.  lastWrite, anySet     *)
(* and prevRead are history variables; callers and names say who calls,    *)
(* with what.                                                              *)
(***************************************************************************)
EXTENDS Integers, Sequences, FiniteSets, TLC

(* ------------------------------ bounds -------------------------------- *)

\* number of goroutines calling into the package
NumProcs == 2

\* largest number of entries in a featureSet passed to Set
MaxEntries == 2

Procs == 1..NumProcs

(* ------------------------- the flag vocabulary ------------------------ *)

unused == 0
CAAValidationMethods == 1
CAAAccountURI == 2
EnforceMultiVA == 3
MultiVAFullResults == 4
MandatoryPOSTAsGET == 5
ECDSAForAll == 6
ServeRenewalInfo == 7
AllowReRevocation == 8
MozRevocationReasons == 9
OldTLSOutbound == 10
OldTLSInbound == 11
SHA1CSRs == 12
AllowUnrecognizedFeatures == 13

\* the identifiers declared in the const block
Flags == unused..AllowUnrecognizedFeatures

\* a FeatureFlag value that no constant declares (FeatureFlag is an int)
InvalidFlag == AllowUnrecognizedFeatures + 1

\* the names the stringer directive generates, indexed by identifier + 1
FlagNames ==
  << "unused", "CAAValidationMethods", "CAAAccountURI", "EnforceMultiVA",
     "MultiVAFullResults", "MandatoryPOSTAsGET", "ECDSAForAll",
     "ServeRenewalInfo", "AllowReRevocation", "MozRevocationReasons",
     "OldTLSOutbound", "OldTLSInbound", "SHA1CSRs",
     "AllowUnrecognizedFeatures" >>

\* FeatureFlag.String(): the constant's name, or FeatureFlag(N) out of range
String(f) ==
  IF f >= 0 /\ f < Len(FlagNames)
    THEN FlagNames[f + 1]
    ELSE "FeatureFlag(" \o ToString(f) \o ")"

\* the literal with SHA1CSRs declared false
FeaturesLiteralSHA1Off ==
  [f \in Flags |-> f \in {OldTLSOutbound, OldTLSInbound}]

\* the literal with the entry of a declared flag left out
FeaturesLiteralNoSHA1 ==
  [f \in Flags \ {SHA1CSRs} |-> f \in {OldTLSOutbound, OldTLSInbound}]

\* the literal the features map is declared with
FeaturesLiteral ==
  [f \in Flags |-> f \in {OldTLSOutbound, OldTLSInbound, SHA1CSRs}]

(* ----------------------------- the callers ---------------------------- *)

\* names that are not the name of any flag
BogusNames == {"totally-bogus-name", "NotAFeature"}

\* the names the callers pass to Set when they exercise flag f
CallerNames(f) == {String(f), String(AllowUnrecognizedFeatures)} \cup BogusNames

\* the featureSet arguments: maps from at most MaxEntries of the names N to
\* booleans
FeatureSets(N) ==
  UNION {[S -> BOOLEAN] : S \in {T \in SUBSET N : Cardinality(T) <= MaxEntries}}

\* who calls, and with which names: one goroutine exercising any one flag, or
\* all the goroutines exercising one flag
Scenarios ==
  {<< {1}, CallerNames(f) >> : f \in Flags}
    \cup {<< Procs, CallerNames(OldTLSOutbound) >>}

VARIABLES
  features,       \* map[FeatureFlag]bool, the current state
  initial,        \* map[FeatureFlag]bool, the defaults captured by init
  nameToFeature,  \* map[string]FeatureFlag
  wHolder,        \* fMu: the goroutine that called Lock and has not unlocked, or 0
  readers,        \* fMu: the goroutines holding a read lock
  pc,             \* position of each goroutine
  featureSet,     \* Set's parameter
  todo,           \* Set's range loop: the keys not yet visited
  unknown,        \* Set's local slice
  err,            \* Set's return value
  n,              \* Enabled's parameter
  ret,            \* Enabled's outcome
  lastWrite,      \* history: the last Set or Reset that completed (which it
                  \* was, how many entries it had, those for declared flags, whether it
                  \* returned an error, the features map it left)
  anySet,         \* history: some Set has acquired the lock
  prevRead,       \* history: the last Enabled to return the value of a flag
                  \* that Set is called on (who, which flag, what value), if
                  \* no Set or Reset has entered or left its critical section
                  \* since
  callers,        \* the goroutines that call into the package
  names           \* the names the callers pass to Set

\* the arguments of Enabled: any identifier and an undeclared one when one
\* goroutine calls; the flags Set is called on, a flag it is never called on
\* and an undeclared one when several do
EnabledArgs ==
  IF callers = {1}
    THEN Flags \cup {InvalidFlag}
    ELSE {f \in Flags : String(f) \in names} \cup {unused, InvalidFlag}

vars == << features, initial, nameToFeature, wHolder, readers, pc, featureSet,
           todo, unknown, err, n, ret, lastWrite, anySet, prevRead, callers, names >>

(* ------------------------ values of the locals ------------------------ *)

\* the zero value of Set's error result
ErrNil == [isNil |-> TRUE, msg |-> ""]

\* fmt.Errorf(msg)
Errorf(msg) == [isNil |-> FALSE, msg |-> msg]

\* Enabled's outcomes: a returned boolean, or a panic carrying a message
Return(v) == [kind |-> "return", v |-> v]
Panic(msg) == [kind |-> "panic", msg |-> msg]
NoOutcome == [kind |-> "none"]

\* the history of the last Enabled
NoRead == [kind |-> "none"]
Read(p, flag, v) == [kind |-> "read", q |-> p, n |-> flag, v |-> v]

\* a map with no entries
EmptyMap == [x \in {} |-> TRUE]

\* the entries of a featureSet whose key is the name of a declared flag
FlagEntries(m) ==
  [name \in DOMAIN m \cap {String(f) : f \in Flags} |-> m[name]]

(* --------------------------- pure functions --------------------------- *)

\* strings.Join(elems, sep)
RECURSIVE Join(_, _)
Join(elems, sep) ==
  IF Len(elems) = 0 THEN ""
  ELSE IF Len(elems) = 1 THEN elems[1]
  ELSE elems[1] \o sep \o Join(Tail(elems), sep)

\* the name table built without the flag that is there for testing
InitNameToFeatureNoUnused(feat) ==
  [name \in {String(f) : f \in DOMAIN feat \ {unused}} |->
     CHOOSE f \in DOMAIN feat : String(f) = name]

\* init(): the name table built from the features map
InitNameToFeature(feat) ==
  [name \in {String(f) : f \in DOMAIN feat} |->
     CHOOSE f \in DOMAIN feat : String(f) = name]

\* init(): the copy of the features map
InitInitial(feat) == [f \in DOMAIN feat |-> feat[f]]

\* initial declared as the features map itself: a write to one is a write to
\* the other
InitialAliased(init, feat) == feat

\* initial once the features map has become feat: initial is a map of its own,
\* filled entry by entry, so a write to features does not reach it
InitialApart(init, feat) == init

\* the loop body with the assignment to features[f] left out
SetEntryNoWrite(feat, unk, table, name, v) ==
  IF name \in DOMAIN table
    THEN [features |-> feat, unknown |-> unk]
    ELSE [features |-> feat, unknown |-> Append(unk, name)]

\* the loop body applying no entry once a name was not recognized
SetEntryStopAtUnknown(feat, unk, table, name, v) ==
  IF name \in DOMAIN table
    THEN [features |-> IF Len(unk) = 0 THEN [feat EXCEPT ![table[name]] = v] ELSE feat,
          unknown |-> unk]
    ELSE [features |-> feat, unknown |-> Append(unk, name)]

\* the loop body keeping only the first name that was not recognized
SetEntryFirstUnknown(feat, unk, table, name, v) ==
  IF name \in DOMAIN table
    THEN [features |-> [feat EXCEPT ![table[name]] = v], unknown |-> unk]
    ELSE [features |-> feat, unknown |-> IF Len(unk) = 0 THEN << name >> ELSE unk]

\* the loop body testing AllowUnrecognizedFeatures when it meets the name,
\* not after the loop
SetEntryCheckAtOnce(feat, unk, table, name, v) ==
  IF name \in DOMAIN table
    THEN [features |-> [feat EXCEPT ![table[name]] = v], unknown |-> unk]
    ELSE [features |-> feat,
          unknown |-> IF feat[AllowUnrecognizedFeatures] THEN unk ELSE Append(unk, name)]

\* the loop body not testing present: a name that is not recognized yields the
\* zero FeatureFlag, and its value is written there
SetEntryZeroValue(feat, unk, table, name, v) ==
  IF name \in DOMAIN table
    THEN [features |-> [feat EXCEPT ![table[name]] = v], unknown |-> unk]
    ELSE [features |-> [feat EXCEPT ![unused] = v], unknown |-> Append(unk, name)]

\* Set, one iteration of the range loop on the entry (name, v): the features
\* map and the unknown slice afterwards
SetEntry(feat, unk, table, name, v) ==
  IF name \in DOMAIN table
    THEN [features |-> [feat EXCEPT ![table[name]] = v], unknown |-> unk]
    ELSE [features |-> feat, unknown |-> Append(unk, name)]

\* the return value computed without looking at AllowUnrecognizedFeatures
SetResultStrict(unk, feat) ==
  IF Len(unk) > 0
    THEN Errorf("unrecognized feature flag names: " \o Join(unk, ", "))
    ELSE ErrNil

\* the return value computed from the default of AllowUnrecognizedFeatures
SetResultInitial(unk, feat) ==
  IF Len(unk) > 0 /\ ~initial[AllowUnrecognizedFeatures]
    THEN Errorf("unrecognized feature flag names: " \o Join(unk, ", "))
    ELSE ErrNil

\* Set, after the loop: the value returned
SetResult(unk, feat) ==
  IF Len(unk) > 0 /\ ~feat[AllowUnrecognizedFeatures]
    THEN Errorf("unrecognized feature flag names: " \o Join(unk, ", "))
    ELSE ErrNil

\* a lookup that enters a missing key with the zero value
EnabledFeaturesInsert(feat, flag) ==
  [f \in DOMAIN feat \cup {flag} |-> IF f \in DOMAIN feat THEN feat[f] ELSE FALSE]

\* Enabled, the lookup v, present := features[n]: the features map afterwards
EnabledFeatures(feat, flag) == feat

\* the lookup returning the map's zero value for a missing key
EnabledOutcomeZeroValue(feat, flag) ==
  IF flag \in DOMAIN feat THEN Return(feat[flag]) ELSE Return(FALSE)

\* Enabled, the lookup: the value returned, or the panic
EnabledOutcome(feat, flag) ==
  IF flag \in DOMAIN feat
    THEN Return(feat[flag])
    ELSE Panic("feature '" \o String(flag) \o "' doesn't exist")

\* the loop restoring only the flags whose default is true
ResetFeaturesOnlyTrue(feat, init) ==
  [f \in DOMAIN feat \cup DOMAIN init |->
     IF f \in DOMAIN init /\ init[f] THEN init[f] ELSE feat[f]]

\* the loop writing v != features[k] instead of v
ResetFeaturesXor(feat, init) ==
  [f \in DOMAIN feat \cup DOMAIN init |->
     IF f \in DOMAIN init /\ f \in DOMAIN feat THEN init[f] # feat[f]
     ELSE IF f \in DOMAIN init THEN init[f] ELSE feat[f]]

\* Reset, the whole range loop: the features map afterwards
ResetFeatures(feat, init) ==
  [f \in DOMAIN feat \cup DOMAIN init |->
     IF f \in DOMAIN init THEN init[f] ELSE feat[f]]

(* ------------------------------- fMu ---------------------------------- *)

\* Lock can take the writers' mutex: no other goroutine has called Lock
CanLock(p) == wHolder = 0

\* Lock returning without waiting for the readers
CanEnterAtOnce(p) == TRUE

\* Lock returns: the readers that held the lock have all released it
CanEnter(p) == readers = {}

\* RLock returning while a Set or a Reset holds the lock
CanRLockAtOnce(p) == TRUE

\* RLock returns: no goroutine has called Lock and not yet Unlock
CanRLock(p) == wHolder = 0

\* Unlock
Unlocked(p) == 0

\* RUnlock called before the return statement instead of deferred: a panic
\* skips it
RUnlockedNotDeferred(p) ==
  IF ret[p].kind = "panic" THEN readers ELSE readers \ {p}

\* RUnlock
RUnlocked(p) == readers \ {p}

(* --------------------------- initial state ---------------------------- *)

InitState ==
  /\ features = FeaturesLiteral
  /\ initial = InitInitial(FeaturesLiteral)
  /\ nameToFeature = InitNameToFeature(FeaturesLiteral)
  /\ wHolder = 0
  /\ readers = {}
  /\ pc = [p \in Procs |-> "idle"]
  /\ featureSet = [p \in Procs |-> EmptyMap]
  /\ todo = [p \in Procs |-> {}]
  /\ unknown = [p \in Procs |-> << >>]
  /\ err = [p \in Procs |-> ErrNil]
  /\ n = [p \in Procs |-> unused]
  /\ ret = [p \in Procs |-> NoOutcome]
  /\ lastWrite = [op |-> "none", len |-> 0, entries |-> EmptyMap,
                  failed |-> FALSE, post |-> FeaturesLiteral]
  /\ anySet = FALSE
  /\ prevRead = NoRead

Init ==
  /\ InitState
  /\ \E sc \in Scenarios : callers = sc[1] /\ names = sc[2]

registry == << features, initial, nameToFeature >>
lock == << wHolder, readers >>
setLocals == << featureSet, todo, unknown, err >>
enabledLocals == << n, ret >>
history == << lastWrite, anySet, prevRead >>
ForgetReads == prevRead' = NoRead

\* the reads kept in prevRead: those of a flag that Set is called on, where Set
\* is called on two flags or more (the history serves to compare the reads of
\* two flags that one Set writes)
Recorded(flag) ==
  /\ String(flag) \in names
  /\ \E other \in Flags : other # flag /\ String(other) \in names
harness == << callers, names >>

(* -------------------------------- Set --------------------------------- *)

\* a goroutine calls Set
CallSet(p) ==
  /\ p \in callers
  /\ pc[p] = "idle"
  /\ pc' = [pc EXCEPT ![p] = "SetLock"]
  /\ UNCHANGED << registry, lock, setLocals, enabledLocals, history, harness >>

\* fMu.Lock(), first half: announce the writer, shutting new readers out
SetLock(p) ==
  /\ pc[p] = "SetLock"
  /\ CanLock(p)
  /\ wHolder' = p
  /\ pc' = [pc EXCEPT ![p] = "SetWait"]
  /\ UNCHANGED << registry, readers, setLocals, enabledLocals, history, harness >>

\* fMu.Lock(), second half: wait for the readers to leave; var unknown []string;
\* the range statement takes the argument m (no earlier step reads it, so it
\* is drawn here)
SetEnter(p, m) ==
  /\ pc[p] = "SetWait"
  /\ CanEnter(p)
  /\ pc' = [pc EXCEPT ![p] = "SetRange"]
  /\ featureSet' = [featureSet EXCEPT ![p] = m]
  /\ todo' = [todo EXCEPT ![p] = DOMAIN m]
  /\ unknown' = [unknown EXCEPT ![p] = << >>]
  /\ anySet' = TRUE
  /\ ForgetReads
  /\ UNCHANGED << registry, lock, err, enabledLocals, lastWrite, harness >>

\* one iteration of the range loop, on any entry not yet visited
SetRange(p, name) ==
  /\ pc[p] = "SetRange"
  /\ name \in todo[p]
  /\ LET after == SetEntry(features, unknown[p], nameToFeature, name,
                           featureSet[p][name])
     IN /\ features' = after.features
        /\ unknown' = [unknown EXCEPT ![p] = after.unknown]
        /\ initial' = InitialApart(initial, after.features)
  /\ todo' = [todo EXCEPT ![p] = todo[p] \ {name}]
  /\ UNCHANGED << nameToFeature, lock, pc, featureSet, err, enabledLocals,
                  history, harness >>

\* the loop is over: the return value is computed
SetReturn(p) ==
  /\ pc[p] = "SetRange"
  /\ todo[p] = {}
  /\ err' = [err EXCEPT ![p] = SetResult(unknown[p], features)]
  /\ pc' = [pc EXCEPT ![p] = "SetUnlock"]
  /\ UNCHANGED << registry, lock, featureSet, todo, unknown, enabledLocals, history, harness >>

\* the deferred fMu.Unlock(); Set has returned
SetUnlock(p) ==
  /\ pc[p] = "SetUnlock"
  /\ wHolder' = Unlocked(p)
  /\ lastWrite' = [op |-> "Set", len |-> Cardinality(DOMAIN featureSet[p]),
                   entries |-> FlagEntries(featureSet[p]),
                   failed |-> ~err[p].isNil, post |-> features]
  /\ pc' = [pc EXCEPT ![p] = "idle"]
  /\ featureSet' = [featureSet EXCEPT ![p] = EmptyMap]
  /\ unknown' = [unknown EXCEPT ![p] = << >>]
  /\ err' = [err EXCEPT ![p] = ErrNil]
  /\ ForgetReads
  /\ UNCHANGED << registry, readers, todo, enabledLocals, anySet, harness >>

(* ------------------------------ Enabled ------------------------------- *)

\* a goroutine calls Enabled
CallEnabled(p) ==
  /\ p \in callers
  /\ pc[p] = "idle"
  /\ pc' = [pc EXCEPT ![p] = "EnabledRLock"]
  /\ UNCHANGED << registry, lock, setLocals, enabledLocals, history, harness >>

\* fMu.RLock()
EnabledRLock(p) ==
  /\ pc[p] = "EnabledRLock"
  /\ CanRLock(p)
  /\ readers' = readers \cup {p}
  /\ pc' = [pc EXCEPT ![p] = "EnabledRead"]
  /\ UNCHANGED << registry, wHolder, setLocals, enabledLocals, history, harness >>

\* the lookup of the argument flag (no earlier step reads it, so it is drawn
\* here): a value to return, or a panic
EnabledRead(p, flag) ==
  /\ pc[p] = "EnabledRead"
  /\ n' = [n EXCEPT ![p] = flag]
  /\ ret' = [ret EXCEPT ![p] = EnabledOutcome(features, flag)]
  /\ features' = EnabledFeatures(features, flag)
  /\ pc' = [pc EXCEPT ![p] = "EnabledRUnlock"]
  /\ UNCHANGED << initial, nameToFeature, lock, setLocals, history, harness >>

\* the deferred fMu.RUnlock(), run on return and on panic alike; the caller
\* takes the value, or recovers from the panic
EnabledRUnlock(p) ==
  /\ pc[p] = "EnabledRUnlock"
  /\ readers' = RUnlocked(p)
  /\ pc' = [pc EXCEPT ![p] = "idle"]
  /\ n' = [n EXCEPT ![p] = unused]
  /\ ret' = [ret EXCEPT ![p] = NoOutcome]
  /\ prevRead' = IF ret[p].kind = "return" /\ Recorded(n[p])
                   THEN Read(p, n[p], ret[p].v)
                   ELSE prevRead
  /\ UNCHANGED << registry, wHolder, setLocals, lastWrite, anySet, harness >>

(* ------------------------------- Reset -------------------------------- *)

\* a goroutine calls Reset()
CallReset(p) ==
  /\ p \in callers
  /\ pc[p] = "idle"
  /\ pc' = [pc EXCEPT ![p] = "ResetLock"]
  /\ UNCHANGED << registry, lock, setLocals, enabledLocals, history, harness >>

\* fMu.Lock(), first half
ResetLock(p) ==
  /\ pc[p] = "ResetLock"
  /\ CanLock(p)
  /\ wHolder' = p
  /\ pc' = [pc EXCEPT ![p] = "ResetWait"]
  /\ UNCHANGED << registry, readers, setLocals, enabledLocals, history, harness >>

\* fMu.Lock(), second half
ResetEnter(p) ==
  /\ pc[p] = "ResetWait"
  /\ CanEnter(p)
  /\ pc' = [pc EXCEPT ![p] = "ResetRange"]
  /\ ForgetReads
  /\ UNCHANGED << registry, lock, setLocals, enabledLocals, lastWrite, anySet, harness >>

\* the range loop over initial, run to its end under the lock
ResetRange(p) ==
  /\ pc[p] = "ResetRange"
  /\ features' = ResetFeatures(features, initial)
  /\ initial' = InitialApart(initial, features')
  /\ pc' = [pc EXCEPT ![p] = "ResetUnlock"]
  /\ UNCHANGED << nameToFeature, lock, setLocals, enabledLocals, history, harness >>

\* the deferred fMu.Unlock(); Reset has returned
ResetUnlock(p) ==
  /\ pc[p] = "ResetUnlock"
  /\ wHolder' = Unlocked(p)
  /\ lastWrite' = [op |-> "Reset", len |-> 0, entries |-> EmptyMap,
                   failed |-> FALSE, post |-> features]
  /\ pc' = [pc EXCEPT ![p] = "idle"]
  /\ ForgetReads
  /\ UNCHANGED << registry, readers, setLocals, enabledLocals, anySet, harness >>

(* ---------------------------- specification --------------------------- *)

Next ==
  \/ \E p \in Procs : CallSet(p)
  \/ \E p \in Procs : SetLock(p)
  \/ \E p \in Procs : \E m \in FeatureSets(names) : SetEnter(p, m)
  \/ \E p \in Procs : \E name \in todo[p] : SetRange(p, name)
  \/ \E p \in Procs : SetReturn(p)
  \/ \E p \in Procs : SetUnlock(p)
  \/ \E p \in Procs : CallEnabled(p)
  \/ \E p \in Procs : EnabledRLock(p)
  \/ \E p \in Procs : \E flag \in EnabledArgs : EnabledRead(p, flag)
  \/ \E p \in Procs : EnabledRUnlock(p)
  \/ \E p \in Procs : CallReset(p)
  \/ \E p \in Procs : ResetLock(p)
  \/ \E p \in Procs : ResetEnter(p)
  \/ \E p \in Procs : ResetRange(p)
  \/ \E p \in Procs : ResetUnlock(p)

Spec == Init /\ [][Next]_vars

\* every goroutine keeps running, and fMu keeps no goroutine waiting for ever:
\* a blocked Lock or RLock is granted once the lock has been free often enough
\* (sync.Mutex hands a starving waiter the lock; a pending Lock of sync.RWMutex
\* shuts new readers out, and Unlock lets the blocked readers in)
Fairness ==
  \A p \in Procs :
    /\ WF_vars(\/ \E m \in FeatureSets(names) : SetEnter(p, m)
               \/ \E name \in todo[p] : SetRange(p, name)
               \/ SetReturn(p) \/ SetUnlock(p)
               \/ \E flag \in EnabledArgs : EnabledRead(p, flag)
               \/ EnabledRUnlock(p)
               \/ ResetEnter(p) \/ ResetRange(p) \/ ResetUnlock(p))
    /\ SF_vars(SetLock(p) \/ ResetLock(p) \/ EnabledRLock(p))

\* the goroutines all call concurrently; their arguments do not bear on what
\* fMu does, and are few
FairInit ==
  /\ InitState
  /\ callers = Procs
  /\ names = {String(AllowUnrecognizedFeatures), "totally-bogus-name"}

FairSpec == FairInit /\ [][Next]_vars /\ Fairness

(* ------------------------------- claims ------------------------------- *)

\* the canonical names of the declared flags
KnownNames == {String(f) : f \in Flags}

\* the names of a featureSet that name no declared flag
UnknownNames(m) == DOMAIN m \ KnownNames

\* the orders a set can be enumerated in
Orders(S) ==
  {o \in [1..Cardinality(S) -> S] : \A i, j \in 1..Cardinality(S) : o[i] = o[j] => i = j}

\* goroutine p is inside the critical section of a Set or a Reset
WriterInside(p) == pc[p] \in {"SetRange", "SetUnlock", "ResetRange", "ResetUnlock"}

\* goroutine p is inside the critical section of an Enabled
ReaderInside(p) == pc[p] \in {"EnabledRead", "EnabledRUnlock"}

\* goroutine q has looked its flag up and not yet released the read lock, and
\* no Set or Reset is under way
HasRead(q) == pc[q] = "EnabledRUnlock" /\ \A p \in Procs : ~WriterInside(p)

\* C1: when the last write was Set({name(F): b}), a single entry for a declared
\* flag F, and no write has happened since, Enabled(F) returns b.
C1_SetThenGet ==
  \A q \in Procs :
    ( /\ HasRead(q)
      /\ lastWrite.op = "Set"
      /\ lastWrite.len = 1
      /\ String(n[q]) \in DOMAIN lastWrite.entries )
    => ret[q] = Return(lastWrite.entries[String(n[q])])

\* C1 happens: Set({name(F): FALSE}) on a flag whose default is TRUE, then
\* Enabled(F)
C1_Witness ==
  \E q \in Procs :
    /\ HasRead(q)
    /\ lastWrite.op = "Set"
    /\ lastWrite.len = 1
    /\ n[q] = OldTLSOutbound
    /\ String(n[q]) \in DOMAIN lastWrite.entries
    /\ lastWrite.entries[String(n[q])] = FALSE

\* C2: when Set returns, it returns an error exactly if its argument has a name
\* of no declared flag and AllowUnrecognizedFeatures is false in the features
\* map as the call leaves it.
C2_ErrorIff ==
  \A p \in Procs :
    pc[p] = "SetUnlock" =>
      ( ~err[p].isNil <=>
          (UnknownNames(featureSet[p]) # {} /\ ~features[AllowUnrecognizedFeatures]) )

\* C2 happens: AllowUnrecognizedFeatures was true before the call, the call
\* sets it to false and has an unknown name, and the error is returned
C2_Witness ==
  \E p \in Procs :
    /\ pc[p] = "SetUnlock"
    /\ lastWrite.post[AllowUnrecognizedFeatures]
    /\ UnknownNames(featureSet[p]) # {}
    /\ String(AllowUnrecognizedFeatures) \in DOMAIN featureSet[p]
    /\ ~features[AllowUnrecognizedFeatures]
    /\ ~err[p].isNil

\* C3: when Set returns, with an error or without, every entry of its argument
\* for a declared flag is in the features map; and after a Set that returned
\* the error, Enabled(F) returns the value that Set had for F.
C3_PartialApply ==
  /\ \A p \in Procs :
       pc[p] = "SetUnlock" =>
         \A f \in Flags :
           String(f) \in DOMAIN featureSet[p] =>
             features[f] = featureSet[p][String(f)]
  /\ \A q \in Procs :
       ( /\ HasRead(q)
         /\ lastWrite.op = "Set"
         /\ lastWrite.failed
         /\ String(n[q]) \in DOMAIN lastWrite.entries )
       => ret[q] = Return(lastWrite.entries[String(n[q])])

\* C3 happens: Set({name(F): TRUE, "totally-bogus-name": ...}) returned the error
\* and Enabled(F) is called next, F a flag whose default is FALSE
C3_Witness ==
  \E q \in Procs :
    /\ HasRead(q)
    /\ lastWrite.op = "Set"
    /\ lastWrite.failed
    /\ lastWrite.len = 2
    /\ n[q] = CAAAccountURI
    /\ String(n[q]) \in DOMAIN lastWrite.entries
    /\ lastWrite.entries[String(n[q])] = TRUE

\* C4: the error Set returns lists the names of its argument that name no
\* declared flag, each once, in some order, and nothing else.
C4_ErrorNames ==
  \A p \in Procs :
    (pc[p] = "SetUnlock" /\ ~err[p].isNil) =>
      \E o \in Orders(UnknownNames(featureSet[p])) :
        err[p].msg = "unrecognized feature flag names: " \o Join(o, ", ")

\* C4 happens: a failing Set whose argument has two unknown names
C4_Witness ==
  \E p \in Procs :
    /\ pc[p] = "SetUnlock"
    /\ ~err[p].isNil
    /\ Cardinality(UnknownNames(featureSet[p])) = 2

\* the defaults the const block's flags are declared with
DeclaredDefault(f) == f \in {OldTLSOutbound, OldTLSInbound, SHA1CSRs}

\* C5: when Reset returns, and when Enabled(F) is called after a Reset with no
\* write in between, every declared flag F has its declared default, whatever
\* Set calls came before.
C5_ResetRestores ==
  /\ \A p \in Procs :
       pc[p] = "ResetUnlock" => \A f \in Flags : features[f] = DeclaredDefault(f)
  /\ \A q \in Procs :
       (HasRead(q) /\ lastWrite.op = "Reset" /\ n[q] \in Flags)
       => ret[q] = Return(DeclaredDefault(n[q]))

\* C5 happens: a Set was called, then Reset, then Enabled on the flag the Set
\* calls were about
C5_Witness ==
  \E q \in Procs :
    /\ anySet
    /\ HasRead(q)
    /\ lastWrite.op = "Reset"
    /\ n[q] # AllowUnrecognizedFeatures
    /\ String(n[q]) \in names

\* C6: Enabled panics, returning nothing, on an identifier that no constant
\* declares, and returns a boolean on every declared identifier.
C6_EnabledPanics ==
  \A q \in Procs :
    pc[q] = "EnabledRUnlock" =>
      /\ n[q] \notin Flags => (ret[q].kind = "panic" /\ n[q] \notin DOMAIN features)
      /\ n[q] \in Flags => (ret[q].kind = "return" /\ ret[q].v \in BOOLEAN)

\* C6 happens: Enabled was called on an undeclared identifier
C6_Witness ==
  \E q \in Procs :
    /\ pc[q] = "EnabledRUnlock"
    /\ n[q] = InvalidFlag
    /\ ret[q].kind = "panic"

\* C7: as long as no Set has been called, Enabled(F) returns the declared
\* default of every declared flag F, and initial equals features.
C7_RoundTripDefault ==
  ~anySet =>
    /\ initial = features
    /\ \A f \in Flags : features[f] = DeclaredDefault(f)
    /\ \A q \in Procs :
         (pc[q] = "EnabledRUnlock" /\ n[q] \in Flags)
         => ret[q] = Return(DeclaredDefault(n[q]))

\* C7 happens: Enabled(SHA1CSRs) before any Set, and before any Reset
C7_Witness ==
  \E q \in Procs :
    /\ ~anySet
    /\ lastWrite.op = "none"
    /\ pc[q] = "EnabledRUnlock"
    /\ n[q] = SHA1CSRs
    /\ ret[q] = Return(TRUE)

\* C8: a Reset that follows a Reset, with no Set in between, leaves the features
\* map as the first Reset left it.
C8_ResetIdempotent ==
  \A p \in Procs :
    (pc[p] = "ResetUnlock" /\ lastWrite.op = "Reset") => features = lastWrite.post

\* C8 happens: Set calls, then Reset twice in a row
C8_Witness ==
  \E p \in Procs :
    /\ anySet
    /\ pc[p] = "ResetUnlock"
    /\ lastWrite.op = "Reset"

\* goroutine p has called Lock or RLock and the call has not returned
Acquiring(p) ==
  pc[p] \in {"SetLock", "SetWait", "ResetLock", "ResetWait", "EnabledRLock"}

\* goroutine p holds fMu, for writing or for reading
Holds(p) == WriterInside(p) \/ ReaderInside(p)

\* C9: while a goroutine is inside the critical section of a Set or a Reset, no
\* other goroutine is inside the critical section of a Set, a Reset or an
\* Enabled.
C9_Exclusion ==
  \A p \in Procs :
    WriterInside(p) =>
      \A q \in Procs \ {p} : ~WriterInside(q) /\ ~ReaderInside(q)

\* C9 happens: two Enabled calls are inside their critical sections at once
\* while a third goroutine, or none, waits
C9_Witness ==
  \E p, q \in Procs : p # q /\ ReaderInside(p) /\ ReaderInside(q)

\* C10: under fair scheduling every call of Set, Reset or Enabled that has
\* started comes to its end; a goroutine that is acquiring fMu does not hold
\* it, and a goroutine that is in no call has released it.
C10_NoBlocking ==
  /\ \A p \in Procs : (pc[p] # "idle") ~> (pc[p] = "idle")
  /\ [](\A p \in Procs :
         /\ Acquiring(p) => (~Holds(p) /\ p \notin readers)
         /\ pc[p] \in {"SetLock", "ResetLock", "EnabledRLock", "idle"}
              => (wHolder # p /\ p \notin readers))

\* C10 happens: a Set has called Lock and waits for an Enabled, which holds the
\* read lock after it panicked, to release it
C10_Witness ==
  \E p, q \in Procs :
    /\ pc[p] = "SetWait"
    /\ pc[q] = "EnabledRUnlock"
    /\ ret[q].kind = "panic"
    /\ q \in readers

\* C11: in every state the features map has one boolean entry for each declared
\* identifier and no other entry, whatever names Set was called with.
C11_KeySet ==
  /\ DOMAIN features = Flags
  /\ \A f \in Flags : features[f] \in BOOLEAN

\* C11 happens: a Set called with two names of no flag has run its loop
C11_Witness ==
  \E p \in Procs :
    /\ pc[p] = "SetUnlock"
    /\ Len(unknown[p]) = 2
    /\ lastWrite.op = "Reset"

\* C12: no step changes initial.
C12_InitialImmutable == [][initial' = initial]_vars

\* C12 happens: a Set has changed the features map, which now differs from
\* initial
C12_Witness ==
  /\ lastWrite.op = "Set"
  /\ features # initial
  /\ \A p \in Procs : pc[p] = "idle"

\* no two declared identifiers share a name
NamesDistinct ==
  /\ \A f, g \in Flags : String(f) = String(g) => f = g
  /\ Cardinality(KnownNames) = Cardinality(Flags)

\* C13: in every state nameToFeature maps the name of each declared identifier
\* to that identifier, no two identifiers share a name, and it has no other
\* key.
C13_LookupTable ==
  /\ DOMAIN nameToFeature = KnownNames
  /\ \A f \in Flags : nameToFeature[String(f)] = f
  /\ NamesDistinct

\* C13 happens: Set calls, one of them failing on an unknown name, and a Reset
\* have run
C13_Witness ==
  /\ lastWrite.op = "Set"
  /\ lastWrite.failed
  /\ \E p \in Procs : pc[p] = "ResetUnlock"

\* the features map a Set called with m leaves, from the map pre it found
Applied(pre, m) ==
  [f \in Flags |-> IF String(f) \in DOMAIN m THEN m[String(f)] ELSE pre[f]]

\* the elements of a sequence
Elements(seq) == {seq[i] : i \in 1..Len(seq)}

\* C14: whatever order the range loop takes the entries in, when Set returns
\* the features map, whether an error is returned and the names it reports are
\* those the argument and the map before the call determine.
C14_OrderIndependent ==
  \A p \in Procs :
    pc[p] = "SetUnlock" =>
      LET m == featureSet[p]
          expected == Applied(lastWrite.post, m)
      IN /\ features = expected
         /\ err[p].isNil <=>
              ~(UnknownNames(m) # {} /\ ~expected[AllowUnrecognizedFeatures])
         /\ Elements(unknown[p]) = UnknownNames(m)
         /\ ~err[p].isNil =>
              err[p].msg = "unrecognized feature flag names: " \o Join(unknown[p], ", ")

\* C14 happens: a failing Set took "NotAFeature" before "totally-bogus-name"
\* (the other order is reached as well)
C14_Witness ==
  \E p \in Procs :
    /\ pc[p] = "SetUnlock"
    /\ ~err[p].isNil
    /\ unknown[p] = << "NotAFeature", "totally-bogus-name" >>

\* the positions of a goroutine inside a call of Enabled
EnabledPcs == {"EnabledRLock", "EnabledRead", "EnabledRUnlock"}

\* C15: a step of Enabled, returning or panicking, changes none of features,
\* initial and nameToFeature; a step that changes features is a step of a
\* goroutine inside the critical section of a Set or a Reset.
C15_OnlyWritersChange ==
  [][ /\ \A p \in Procs :
           (pc'[p] # pc[p] /\ (pc[p] \in EnabledPcs \/ pc'[p] \in EnabledPcs))
           => (features' = features /\ initial' = initial
               /\ nameToFeature' = nameToFeature)
      /\ features' # features =>
           \E p \in Procs :
             /\ pc[p] \in {"SetRange", "ResetRange"}
             /\ pc'[p] \in {"SetRange", "ResetUnlock"} ]_vars

\* C15 happens: Enabled has panicked while the features map differs from the
\* defaults
C15_Witness ==
  \E q \in Procs :
    /\ pc[q] = "EnabledRUnlock"
    /\ ret[q].kind = "panic"
    /\ features # initial

\* C16: during a Set and when it returns, every flag whose name is no key of
\* the argument has the value it had before the call; with no entry for a
\* declared flag the whole features map is as before the call.
C16_SetFrame ==
  \A p \in Procs :
    pc[p] \in {"SetRange", "SetUnlock"} =>
      /\ \A f \in Flags :
           String(f) \notin DOMAIN featureSet[p] => features[f] = lastWrite.post[f]
      /\ UnknownNames(featureSet[p]) = DOMAIN featureSet[p]
           => features = lastWrite.post

\* C16 happens: a Set with unknown names only returns, the features map
\* differing from the defaults
C16_Witness ==
  \E p \in Procs :
    /\ pc[p] = "SetUnlock"
    /\ featureSet[p] # EmptyMap
    /\ UnknownNames(featureSet[p]) = DOMAIN featureSet[p]
    /\ features # initial

\* C17: a Set whose argument has an entry for AllowUnrecognizedFeatures and an
\* unknown name returns the error exactly if that entry is false, whatever the
\* flag was before the call.
C17_OwnEntryDecides ==
  \A p \in Procs :
    ( /\ pc[p] = "SetUnlock"
      /\ String(AllowUnrecognizedFeatures) \in DOMAIN featureSet[p]
      /\ UnknownNames(featureSet[p]) # {} )
    => (err[p].isNil <=> featureSet[p][String(AllowUnrecognizedFeatures)])

\* C17 happens: the flag was false before the call, the call sets it to true
\* and has an unknown name, and no error is returned
C17_Witness ==
  \E p \in Procs :
    /\ pc[p] = "SetUnlock"
    /\ ~lastWrite.post[AllowUnrecognizedFeatures]
    /\ String(AllowUnrecognizedFeatures) \in DOMAIN featureSet[p]
    /\ featureSet[p][String(AllowUnrecognizedFeatures)]
    /\ UnknownNames(featureSet[p]) # {}
    /\ err[p].isNil

\* the flags that a Set called with m changes, features being pre before it
Changed(pre, m) ==
  {f \in Flags : String(f) \in DOMAIN m /\ m[String(f)] # pre[f]}

\* the goroutines whose Set is inside its critical section
SetInside == {p \in Procs : pc[p] \in {"SetRange", "SetUnlock"}}

\* C18: Set is atomic for readers.  While an Enabled holds the read lock the
\* map is as the last completed Set or Reset left it (as declared, if there
\* was none), and that is the value Enabled returns: no state in the middle of
\* a Set is seen.  And a goroutine whose Enabled(A) returned the new value that
\* a Set gives A does not then get from Enabled(B) the old value of B, for A
\* and B two flags that the Set changes: not while the Set is in its critical
\* section, and not after it has left it.
C18_SetAtomic ==
  \A q \in Procs :
    /\ ReaderInside(q) => features = lastWrite.post
    /\ (pc[q] = "EnabledRUnlock" /\ n[q] \in Flags)
         => ret[q] = Return(lastWrite.post[n[q]])
    /\ ( /\ pc[q] = "EnabledRUnlock"
         /\ ret[q].kind = "return"
         /\ prevRead.kind = "read"
         /\ prevRead.q = q
         /\ prevRead.n # n[q] )
       => /\ \A p \in SetInside :
               ( /\ {prevRead.n, n[q]} \subseteq Changed(lastWrite.post, featureSet[p])
                 /\ prevRead.v = featureSet[p][String(prevRead.n)] )
               => ret[q].v = featureSet[p][String(n[q])]
          /\ ( /\ SetInside = {}
               /\ lastWrite.op = "Set"
               /\ {String(prevRead.n), String(n[q])} \subseteq DOMAIN lastWrite.entries
               /\ prevRead.v = lastWrite.entries[String(prevRead.n)] )
             => ret[q].v = lastWrite.entries[String(n[q])]

\* C18 happens: with goroutines running concurrently, a Set that makes
\* OldTLSOutbound false and AllowUnrecognizedFeatures true has completed; a
\* goroutine's Enabled(OldTLSOutbound) returned false and its
\* Enabled(AllowUnrecognizedFeatures) now returns true
C18_Witness ==
  \E q \in Procs :
    /\ callers = Procs
    /\ lastWrite.op = "Set"
    /\ String(OldTLSOutbound) \in DOMAIN lastWrite.entries
    /\ String(AllowUnrecognizedFeatures) \in DOMAIN lastWrite.entries
    /\ ~lastWrite.entries[String(OldTLSOutbound)]
    /\ lastWrite.entries[String(AllowUnrecognizedFeatures)]
    /\ prevRead = Read(q, OldTLSOutbound, FALSE)
    /\ pc[q] = "EnabledRUnlock"
    /\ n[q] = AllowUnrecognizedFeatures
    /\ ret[q] = Return(TRUE)

\* the Enabled of goroutine q has panicked and its deferred RUnlock has not run
Panicking(q) == pc[q] = "EnabledRUnlock" /\ ret[q].kind = "panic"

\* C19: an Enabled that panics releases its read lock: the step by which the
\* panicking call ends takes the goroutine out of the readers of fMu, and under
\* fair scheduling a Set, Reset or Enabled of another goroutine that is
\* acquiring fMu while the call panics comes to hold it and runs to its end; a
\* goroutine that is in no call holds nothing, so later calls acquire it too.
C19_PanicReleases ==
  /\ [][\A q \in Procs :
          (Panicking(q) /\ pc'[q] = "idle")
            => (q \notin readers' /\ wHolder' # q)]_vars
  /\ [](\A q \in Procs : pc[q] = "idle" => (q \notin readers /\ wHolder # q))
  /\ \A p \in Procs :
       (Acquiring(p) /\ \E q \in Procs \ {p} : Panicking(q)) ~> Holds(p)
  /\ \A p \in Procs :
       (Acquiring(p) /\ \E q \in Procs \ {p} : Panicking(q)) ~> (pc[p] = "idle")

\* C19 happens: a Reset has called Lock and waits for an Enabled, which holds
\* the read lock after it panicked, to release it
C19_Witness ==
  \E p, q \in Procs :
    /\ pc[p] = "ResetWait"
    /\ Panicking(q)
    /\ readers = {q}

====
